---------------------------- MODULE Spec2Model ----------------------------
(***************************************************************************)
(* A model of the PPO trainer of rl_framework:                             *)
(*   src/user_define/model.py  ModelWrapper (load/save, GAE preprocessing, *)
(*                             clipped-surrogate update)                   *)
(*   src/Trainer/worker.py     Worker (the remote-callable wrapper)        *)
(*                                                                         *)
(* Three specifications share the module:                                  *)
(*   SpecGAE   preprocess_data as a function of one trajectory             *)
(*   SpecClip  the loss computation of train_model on one batch            *)
(*   Spec      the Worker / ModelWrapper / checkpoint-file state machine   *)
(*                                                                         *)
(* Real numbers are fixed-point integers, Unit units per 1.0.  Rounding is *)
(* to the nearest unit (a tie goes toward zero), where the code rounds to  *)
(* the nearest float.                                                      *)
(***************************************************************************)
EXTENDS Integers, Sequences, FiniteSets, TLC

VARIABLES
    config,        \* GAE/clip: self.config (GAMMA, LAMBDA as LAMBDA_, EPS_CLIP)
    rewards,       \* GAE: the rewards array
    dones,         \* GAE: the dones array (0/1)
    values,        \* GAE: critic(states), line 67
    next_values,   \* GAE: critic(next_states), line 68
    advantages,    \* GAE: the local array `advantages` after the loop, line 80
    result,        \* GAE: what preprocess_data returned, or NoResult
    clip,          \* Clip: one batch of train_model's loss computation
    status,        \* Worker: per worker "none", "loading" (inside load_model),
                   \*   "ready", or "failed" (__init__ raised)
    model,         \* Worker: per worker its ModelWrapper: networks, gradients, optimizers
    wattr,         \* Worker: per worker the attributes actor/critic set on the Worker
    fs,            \* the checkpoint files: path -> blob or NoFile
    pre,           \* Worker: the latest preprocess_data call and its result, until
                   \*   the worker that made it trains
    built,         \* Worker: per worker its construction: what load_model read and did
    returned,      \* Worker: what the latest call returned, when it was ready()
    saved,         \* history: per path the latest save_model call: who, with what
    forward        \* the critics evaluated so far, each with the function it computes

gaeVars == <<config, rewards, dones, values, next_values, advantages, result>>
workerVars == <<status, model, wattr, fs, pre, built, returned, saved, forward>>
vars == <<gaeVars, clip, workerVars>>

-----------------------------------------------------------------------------
(* Arithmetic.  Rationals are exact fixed-point integers; the inputs drawn *)
(* below are such that no product loses a digit.                           *)

Unit == 2^7

Abs(x) == IF x < 0 THEN -x ELSE x
Sgn(x) == IF x < 0 THEN -1 ELSE IF x > 0 THEN 1 ELSE 0

\* n / d for d > 0, to the nearest integer, a tie toward zero
RoundDiv(n, d) == Sgn(n) * ((2 * Abs(n) + d - 1) \div (2 * d))

\* the product of two fixed-point numbers
Mul(x, y) == RoundDiv(x * y, Unit)

RECURSIVE SumTo(_, _)
SumTo(a, n) == IF n = 0 THEN 0 ELSE a[n] + SumTo(a, n - 1)
Sum(a) == SumTo(a, Len(a))

-----------------------------------------------------------------------------
(* ModelWrapper.preprocess_data, model.py:63-90 *)

NoResult == [advantage |-> <<>>, td_target |-> <<>>, none |-> TRUE]

\* the variables of a specification that is not running
IdleClip == [phase |-> "idle"]
IdleGAE ==
    /\ rewards = <<>> /\ dones = <<>> /\ values = <<>> /\ next_values = <<>>
    /\ advantages = <<>> /\ result = NoResult

\* line 73: delta = rewards + GAMMA * next_values * (1 - dones) - values
Delta(cfg, r, nv, d, v) ==
    [t \in 1..Len(r) |-> r[t] + Mul(cfg.GAMMA, nv[t]) * (1 - d[t]) - v[t]]

\* a step that forgets the done mask
GaeStepNoMask(cfg, delta_i, done_i, gae) ==
    delta_i + Mul(Mul(cfg.GAMMA, cfg.LAMBDA_), gae)

\* lines 76-79: gae = delta[i] + GAMMA * LAMBDA * (1 - dones[i]) * gae
GaeStep(cfg, delta_i, done_i, gae) ==
    delta_i + Mul(Mul(cfg.GAMMA, cfg.LAMBDA_) * (1 - done_i), gae)

\* lines 75-80: for i in reversed(range(len(rewards))); index i here is i+1
RECURSIVE GaeLoop(_, _, _, _, _, _)
GaeLoop(cfg, delta, d, i, gae, adv) ==
    IF i = 0 THEN adv
    ELSE LET g == GaeStep(cfg, delta[i], d[i], gae)
         IN  GaeLoop(cfg, delta, d, i - 1, g, [adv EXCEPT ![i] = g])

\* lines 72-80: the raw advantages
RawAdvantages(cfg, r, nv, d, v) ==
    GaeLoop(cfg, Delta(cfg, r, nv, d, v), d, Len(r), 0, [t \in 1..Len(r) |-> 0])

(***************************************************************************)
(* The normalized advantage is a square root away from the rationals, so   *)
(* it is kept exact as a quotient                                          *)
(*      [num, n, root, eps]  =  (num / n) / (sqrt(root) / n + eps * 1e-8)  *)
(* with num in units and root in squared units: num / n is the centered    *)
(* advantage a - mean, sqrt(root) / n the standard deviation.              *)
(***************************************************************************)

\* advantages, times n: the mean is not subtracted
NotCentered(adv) == [t \in 1..Len(adv) |-> Len(adv) * adv[t]]

\* advantages - advantages.mean(), times n = len(advantages)
Centered(adv) == [t \in 1..Len(adv) |-> Len(adv) * adv[t] - Sum(adv)]

\* numpy: a.std() = sqrt(mean(|a - a.mean()|^2)), as the root of
\* sum((n*(a - mean))^2) / n over n
StdRoot(adv) ==
    LET c == [t \in 1..Len(adv) |-> Len(adv) * adv[t] - Sum(adv)]
    IN  Sum([t \in 1..Len(adv) |-> c[t] * c[t]]) \div Len(adv)

\* a divisor that is always 1.0
StdDivisorOne(adv) == [root |-> Len(adv) * Len(adv) * Unit * Unit, eps |-> 0]

\* lines 82-85: std = advantages.std() + 1e-8 if len > 1 else 1.0
StdDivisor(adv) ==
    IF Len(adv) > 1 THEN [root |-> StdRoot(adv), eps |-> 1]
                    ELSE [root |-> Len(adv) * Len(adv) * Unit * Unit, eps |-> 0]

\* line 86: normalized_advantage = (advantages - advantages.mean()) / std
Normalize(adv) ==
    [t \in 1..Len(adv) |->
        [num |-> Centered(adv)[t], n |-> Len(adv),
         root |-> StdDivisor(adv).root, eps |-> StdDivisor(adv).eps]]

\* line 88: td_target = normalized_advantage + values
TdTarget(norm, v) == [t \in 1..Len(v) |-> [q |-> norm[t], plus |-> v[t]]]

\* lines 63-90
PreprocessData(cfg, r, nv, d, v) ==
    LET adv == RawAdvantages(cfg, r, nv, d, v)
        norm == Normalize(adv)
    IN  [advantage |-> norm, td_target |-> TdTarget(norm, v), none |-> FALSE]

-----------------------------------------------------------------------------
(* Networks, gradients, optimizers.                                        *)
(*                                                                         *)
(* A network is nn.Sequential(Linear, ReLU, Linear, ReLU, Linear): its      *)
(* parameters are the tensors of the layers fc.0, fc.2 and fc.4 (weight    *)
(* and bias of a layer go together).  The tensors of a layer are           *)
(* [seed, hist]: the initialization they started from and, in order, what  *)
(* each optimizer step applied to them: the gradient, and the gradients    *)
(* the optimizer had seen before (Adam's moments).                         *)
(* A gradient buffer (.grad) is the set of backward passes accumulated in  *)
(* it; a backward pass is [loss, batch, at]: the loss, the batch, and how  *)
(* many steps the parameters of the forward pass had taken.                *)

Workers == {"w1", "w2"}
Paths == {"p"}
Nets == {"actor", "critic"}
BatchIds == {"b1", "b2"}
\* the batches train_model is called on
TrainBatchIds == {"b1"}
Layers == {"fc0", "fc2", "fc4"}

\* the width of the two inner layers, lines 124-128 and 139-143
Hidden == 64

\* the weight shapes <<out, in>> of the three Linear layers: Actor(state_dim,
\* action_dim), lines 123-129, and Critic(state_dim), lines 138-144
Shape(cfg, k) ==
    [fc0 |-> <<Hidden, cfg.NUM_STATE>>,
     fc2 |-> <<Hidden, Hidden>>,
     fc4 |-> <<IF k = "actor" THEN cfg.NUM_ACTION ELSE 1, Hidden>>]

\* model.py:16-19: Actor(...), Critic(...): a freshly initialized network
FreshParams(w, k) == [L \in Layers |-> [seed |-> <<"init", w, k>>, hist |-> <<>>]]

\* how many optimizer steps each layer of a network has taken
Taken(params) == [L \in Layers |-> Len(params[L].hist)]

\* model.py:22-23: optim.Adam(net.parameters(), lr)
NewOptimizer == [step |-> 0, seen |-> <<>>]

\* the networks a loss reaches through the graph: actor_loss is built from
\* self.actor(batch_state) and the advantage array (data), critic_loss from
\* self.critic(batch_state) and the td_target array (data); lines 96-104
LossNets(loss) == IF loss = "actor_loss" THEN {"actor"} ELSE {"critic"}

GradOf(c, k) == IF k = "actor" THEN c.actor_grad ELSE c.critic_grad
ParamsOf(c, k) == IF k = "actor" THEN c.actor ELSE c.critic
OptOf(c, k) == IF k = "actor" THEN c.actor_optimizer ELSE c.critic_optimizer

\* a zero_grad that leaves the buffers as they are
ZeroGradKeep(c, k) ==
    [c EXCEPT !.events = Append(@, [op |-> "zero_grad", on |-> k, grad |-> {}])]

\* optimizer.zero_grad(), lines 106 and 110: clears the buffers of the
\* parameters the optimizer was built on (lines 22-23)
ZeroGrad(c, k) ==
    LET e == [op |-> "zero_grad", on |-> k, grad |-> {}]
    IN  IF k = "actor"
        THEN [c EXCEPT !.actor_grad = {}, !.events = Append(@, e)]
        ELSE [c EXCEPT !.critic_grad = {}, !.events = Append(@, e)]

\* loss.backward(), lines 107 and 111: adds the loss's gradient to the buffer
\* of every network the loss reaches; fwd holds the parameters of the forward
\* pass of lines 96-97
Backward(c, loss, b, fwd) ==
    LET g == [loss |-> loss, batch |-> b, at |-> fwd]
        e == [op |-> "backward", on |-> loss, grad |-> {g}]
    IN  [c EXCEPT !.actor_grad = IF "actor" \in LossNets(loss) THEN @ \cup {g} ELSE @,
                  !.critic_grad = IF "critic" \in LossNets(loss) THEN @ \cup {g} ELSE @,
                  !.events = Append(@, e)]

\* optimizer.step(), lines 108 and 112: applies the buffer to the parameters
\* the optimizer was built on and folds it into the optimizer's moments
OptimizerStep(c, k) ==
    LET g == GradOf(c, k)
        e == [op |-> "step", on |-> k, grad |-> g]
        u == [grad |-> g, moments |-> OptOf(c, k).seen]
        p == [L \in Layers |-> [ParamsOf(c, k)[L] EXCEPT !.hist = Append(@, u)]]
        o == [step |-> OptOf(c, k).step + 1, seen |-> Append(OptOf(c, k).seen, g)]
    IN  IF k = "actor"
        THEN [c EXCEPT !.actor = p, !.actor_optimizer = o, !.events = Append(@, e)]
        ELSE [c EXCEPT !.critic = p, !.critic_optimizer = o, !.events = Append(@, e)]

\* ModelWrapper.train_model, lines 93-117, on batch b
TrainModelOn(c, b) ==
    LET fwd == [actor |-> Taken(c.actor), critic |-> Taken(c.critic)]   \* 96-97
        c0 == [c EXCEPT !.events = <<[op |-> "forward", on |-> c.bind, grad |-> {}]>>]
        c1 == ZeroGrad(c0, "actor")                             \* line 106
        c2 == Backward(c1, "actor_loss", b, fwd)                \* line 107
        c3 == OptimizerStep(c2, "actor")                        \* line 108
        c4 == ZeroGrad(c3, "critic")                            \* line 110
        c5 == Backward(c4, "critic_loss", b, fwd)               \* line 111
    IN  OptimizerStep(c5, "critic")                             \* line 112

-----------------------------------------------------------------------------
(* Checkpoint files: ModelWrapper.save_model and load_model *)

NoFile == [exists |-> FALSE]

\* net.state_dict(): the tensors under the names of the layers, with their
\* shapes; a wrapper's names carry the prefix "module."
StateDict(names, shape, params) == [names |-> names, shape |-> shape, params |-> params]
NetStateDict(cfg, k, binding, params) ==
    StateDict(IF binding = "raw" THEN "fc" ELSE "module.fc", Shape(cfg, k), params)

\* a file: the keys of the saved mapping and the entry under each
Blob(keys, a, c) == [exists |-> TRUE, keys |-> keys, actor |-> a, critic |-> c]

\* getattr(net, "module", net), lines 29-30: the network behind a wrapper,
\* or the network itself
Unwrap(binding) == "raw"

\* a blob of the state_dicts of the networks as they are bound
SaveBlobBound(cfg, c) ==
    Blob({"actor", "critic"},
         NetStateDict(cfg, "actor", c.bind.actor, c.actor),
         NetStateDict(cfg, "critic", c.bind.critic, c.critic))

\* lines 29-37: {"actor": actor.state_dict(), "critic": critic.state_dict()}
\* of the unwrapped networks
SaveBlob(cfg, c) ==
    Blob({"actor", "critic"},
         NetStateDict(cfg, "actor", Unwrap(c.bind.actor), c.actor),
         NetStateDict(cfg, "critic", Unwrap(c.bind.critic), c.critic))

\* the parameters of a checkpoint written by an earlier run
CkptParams(k) == [L \in Layers |-> [seed |-> <<"ckpt", k>>, hist |-> <<>>]]

\* what the checkpoint path may hold when a worker is built: nothing, a
\* well-formed blob, a blob without one of the keys, a blob whose actor entry
\* is the state_dict of a Critic, a blob whose critic entry is the state_dict
\* of an Actor.  When the Actor and the Critic are of one shape the blobs with
\* both keys differ in nothing but the tensors, and the one with two Critic
\* entries stands for the three.
InitialFiles(cfg) ==
    LET a == StateDict("fc", Shape(cfg, "actor"), CkptParams("actor"))
        c == StateDict("fc", Shape(cfg, "critic"), CkptParams("critic"))
    IN  { NoFile,
          Blob({"critic"}, NoFile, c),
          Blob({"actor"}, a, NoFile),
          Blob({"actor", "critic"}, c, c) }
        \cup IF Shape(cfg, "actor") = Shape(cfg, "critic")
             THEN {}
             ELSE { Blob({"actor", "critic"}, a, c),
                    Blob({"actor", "critic"}, a, a) }

\* net.load_state_dict(sd), strict, lines 41 and 46.  Names that do not match
\* are all missing and unexpected and nothing is copied.  Otherwise every
\* tensor whose shape matches is copied into the network, one whose shape
\* does not match is left as it was, and RuntimeError is raised after the
\* copying if any was left.
LoadStateDict(params, shape, sd) ==
    IF sd.names # "fc"
    THEN [params |-> params, raised |-> "RuntimeError"]
    ELSE [params |-> [L \in Layers |->
                        IF sd.shape[L] = shape[L] THEN sd.params[L] ELSE params[L]],
          raised |-> IF \A L \in Layers : sd.shape[L] = shape[L]
                     THEN "none" ELSE "RuntimeError"]

\* net.load_state_dict(torch.load(path)[key]) on a file that exists,
\* lines 41-45 and 46-50: the subscript raises KeyError before anything loads
LoadEntry(params, shape, blob, key) ==
    IF key \notin blob.keys
    THEN [params |-> params, raised |-> "KeyError"]
    ELSE LoadStateDict(params, shape, blob[key])

\* a first statement whose missing file is not caught
LoadActorNoCatch(cfg, actor, blob) ==
    IF ~blob.exists
    THEN [params |-> actor, raised |-> "FileNotFoundError", printed |-> "none",
          goes |-> "raise"]
    ELSE LET l == LoadEntry(actor, Shape(cfg, "actor"), blob, "actor")
         IN  [params |-> l.params, raised |-> l.raised, printed |-> "none",
              goes |-> IF l.raised = "none" THEN "on" ELSE "raise"]

\* lines 40-45 with 52-53: the first statement of the try, on what the first
\* torch.load finds.  A missing file raises FileNotFoundError before anything
\* is loaded and line 52 catches it; any other error leaves load_model.
LoadActor(cfg, actor, blob) ==
    IF ~blob.exists
    THEN [params |-> actor, raised |-> "none", printed |-> "not found",
          goes |-> "return"]
    ELSE LET l == LoadEntry(actor, Shape(cfg, "actor"), blob, "actor")
         IN  [params |-> l.params, raised |-> l.raised, printed |-> "none",
              goes |-> IF l.raised = "none" THEN "on" ELSE "raise"]

\* lines 46-53: the second statement of the try and the print, on what the
\* second torch.load finds
LoadCritic(cfg, critic, blob) ==
    IF ~blob.exists
    THEN [params |-> critic, raised |-> "none", printed |-> "not found"]
    ELSE LET l == LoadEntry(critic, Shape(cfg, "critic"), blob, "critic")
         IN  [params |-> l.params, raised |-> l.raised,
              printed |-> IF l.raised = "none" THEN "loaded" ELSE "none"]

\* lines 39-53: load_model, given what its two torch.load calls find
LoadModel(cfg, actor, critic, first, second) ==
    LET a == LoadActor(cfg, actor, first)
        c == LoadCritic(cfg, critic, second)
    IN  IF a.goes = "on"
        THEN [actor |-> a.params, critic |-> c.params,
              raised |-> c.raised, printed |-> c.printed]
        ELSE [actor |-> a.params, critic |-> critic,
              raised |-> a.raised, printed |-> a.printed]

\* ModelWrapper.__init__, lines 11-23, given load_model's outcome l
NewModel(l) ==
    [actor |-> l.actor, critic |-> l.critic,
     actor_grad |-> {}, critic_grad |-> {},
     actor_optimizer |-> NewOptimizer, critic_optimizer |-> NewOptimizer,
     bind |-> [actor |-> "raw", critic |-> "raw"],
     events |-> <<>>]

-----------------------------------------------------------------------------
(* The batches the orchestrator hands to a worker, and the critic on them *)

\* the configuration record of the workers
WorkerConfig(num_action) ==
    [NUM_STATE |-> 1, NUM_ACTION |-> num_action,
     GAMMA |-> Unit, LAMBDA_ |-> Unit \div 2, EPS_CLIP |-> Unit \div 4]

\* NUM_ACTION = 1 makes the Actor and the Critic of one shape
WorkerConfigs == {WorkerConfig(n) : n \in {1, 2}}

Batch(b) ==
    IF b = "b1"
    THEN [states |-> <<0, 1>>, next_states |-> <<1, 0>>,
          rewards |-> <<Unit, 0>>, dones |-> <<0, 1>>]
    ELSE [states |-> <<1>>, next_states |-> <<1>>, rewards |-> <<Unit>>, dones |-> <<0>>]

\* the states of the batches and the values a critic may give a state
States == {0, 1}
CriticValues == {0, Unit}

\* Critic.forward, lines 146-147, is a function of the parameters and the
\* state.  What function the parameters compute is not modelled: any function
\* from states to values may be the one, and it is the same one whenever the
\* same parameters are evaluated.
CriticFunctions == [States -> CriticValues]

\* the functions that the evaluations so far leave open for the parameters
Computes(evaluated, params) ==
    IF \E e \in evaluated : e.critic = params
    THEN {e.fn : e \in {x \in evaluated : x.critic = params}}
    ELSE CriticFunctions

\* self.critic(x), lines 67-68 into 146-147, for parameters that compute fn
CriticForward(fn, state) == fn[state]

\* a preprocess_data that takes an optimizer step on the critic
PreprocessEffectStep(c) == OptimizerStep(c, "critic")

\* what preprocess_data does to the container, lines 63-90: nothing is
\* assigned, and the critic runs under no_grad
PreprocessEffect(c) == c

\* lines 65-70 and 72-90 on batch b with a critic that computes fn
PreprocessBatch(cfg, fn, b) ==
    LET v == [t \in 1..Len(Batch(b).states) |-> CriticForward(fn, Batch(b).states[t])]
        nv == [t \in 1..Len(Batch(b).states) |->
                 CriticForward(fn, Batch(b).next_states[t])]
    IN  PreprocessData(cfg, Batch(b).rewards, nv, Batch(b).dones, v)

-----------------------------------------------------------------------------
(* Spec: the workers *)

\* how many train_model calls and evaluations of a critic not evaluated
\* before there are, over all workers
MaxWork == 2

NoModel == [none |-> TRUE]
NoPre == [w |-> "none", batch |-> "none", out |-> NoResult]
NoReturn == "none"
NoBuilt == [done |-> FALSE]
NoSave == [w |-> "none"]

IdleWorker ==
    /\ status = [w \in Workers |-> "none"]
    /\ model = [w \in Workers |-> NoModel]
    /\ wattr = [w \in Workers |-> [actor |-> "unset", critic |-> "unset"]]
    /\ fs = [p \in Paths |-> NoFile]
    /\ pre = NoPre
    /\ built = [w \in Workers |-> NoBuilt]
    /\ returned = NoReturn
    /\ saved = [p \in Paths |-> NoSave]
    /\ forward = {}

Init ==
    /\ status = [w \in Workers |-> "none"]
    /\ model = [w \in Workers |-> NoModel]
    /\ wattr = [w \in Workers |-> [actor |-> "unset", critic |-> "unset"]]
    /\ config \in WorkerConfigs
    /\ fs \in [Paths -> InitialFiles(config)]
    /\ pre = NoPre
    /\ built = [w \in Workers |-> NoBuilt]
    /\ returned = NoReturn
    /\ saved = [p \in Paths |-> NoSave]
    /\ forward = {}
    /\ IdleGAE
    /\ clip = IdleClip

\* what a construction that has ended leaves on record
Built(w, p, reads, first, second, saw, saw2, l) ==
    [done |-> TRUE, path |-> p, reads |-> reads,
     blob |-> first, blob2 |-> second, saw |-> saw, saw2 |-> saw2,
     before |-> [actor |-> FreshParams(w, "actor"), critic |-> FreshParams(w, "critic")],
     after |-> [actor |-> l.actor, critic |-> l.critic],
     raised |-> l.raised, printed |-> l.printed]

\* Worker.__init__, worker.py:9-15, into ModelWrapper.__init__, model.py:11-21,
\* up to the end of the first statement of load_model's try, lines 40-45:
\* the first torch.load of the file.  On a missing file or an error the
\* construction ends here.
ConstructLoadActor(w, p) ==
    /\ status[w] = "none"
    /\ LET a == LoadActor(config, FreshParams(w, "actor"), fs[p])
           l == LoadModel(config, FreshParams(w, "actor"), FreshParams(w, "critic"),
                          fs[p], fs[p])
       IN  IF a.goes = "on"
           THEN /\ status' = [status EXCEPT ![w] = "loading"]
                /\ built' = [built EXCEPT ![w] =
                               [done |-> FALSE, path |-> p, reads |-> 1,
                                blob |-> fs[p], saw |-> saved[p], actor |-> a.params]]
                /\ UNCHANGED model
           ELSE /\ status' = [status EXCEPT ![w] =
                                IF a.goes = "return" THEN "ready" ELSE "failed"]
                /\ built' = [built EXCEPT ![w] =
                               Built(w, p, 1, fs[p], fs[p], saved[p], saved[p], l)]
                /\ model' = [model EXCEPT ![w] = NewModel(l)]
    /\ returned' = NoReturn
    /\ UNCHANGED <<pre, wattr, fs, saved, forward, gaeVars, clip>>

\* the rest of the construction: the second statement of the try with the
\* second torch.load of the file, lines 46-53, then model.py:22-23 and
\* worker.py:16-20
ConstructLoadCritic(w) ==
    /\ status[w] = "loading"
    /\ LET p == built[w].path
           l == LoadModel(config, FreshParams(w, "actor"), FreshParams(w, "critic"),
                          built[w].blob, fs[p])
       IN  /\ status' = [status EXCEPT ![w] = IF l.raised = "none" THEN "ready" ELSE "failed"]
           /\ model' = [model EXCEPT ![w] = NewModel(l)]
           /\ built' = [built EXCEPT ![w] =
                          Built(w, p, 2, built[w].blob, fs[p], built[w].saw, saved[p], l)]
    /\ returned' = NoReturn
    /\ UNCHANGED <<pre, wattr, fs, saved, forward, gaeVars, clip>>

\* the optimizer steps taken so far, over all workers
StepsTaken ==
    LET n(w) == IF status[w] = "ready" THEN model[w].actor_optimizer.step ELSE 0
    IN  n("w1") + n("w2")

\* the critics evaluated so far
Evaluated == {e.critic : e \in forward}

\* Worker.ready, worker.py:22-23
Ready(w) ==
    /\ status[w] = "ready"
    /\ returned' = "True"
    /\ UNCHANGED <<status, model, wattr, fs, pre, built, saved, forward, gaeVars, clip>>

\* Worker.preprocess_data, worker.py:25-26
PreprocessCall(w, b) ==
    /\ status[w] = "ready"
    /\ \/ model[w].critic \in Evaluated
       \/ StepsTaken + Cardinality(Evaluated) < MaxWork
    /\ \E fn \in Computes(forward, model[w].critic) :
         /\ forward' = forward \cup {[critic |-> model[w].critic, fn |-> fn]}
         /\ pre' = [w |-> w, batch |-> b, out |-> PreprocessBatch(config, fn, b)]
    /\ model' = [model EXCEPT ![w] = PreprocessEffect(@)]
    /\ returned' = NoReturn
    /\ UNCHANGED <<status, wattr, fs, built, saved, gaeVars, clip>>

\* train.torch.prepare_model, the adapter of the execution layer: it returns
\* a gradient-synchronizing wrapper around the network it is given
PrepareAdapter(net) == "ddp"

\* Worker.prepare_model, worker.py:28-31: setattr(self, k, ...) on the Worker
PrepareModel(w) ==
    /\ status[w] = "ready"
    /\ wattr' = [wattr EXCEPT ![w] = [k \in Nets |-> PrepareAdapter(model[w].bind[k])]]
    /\ returned' = NoReturn
    /\ UNCHANGED <<pre, status, model, fs, built, saved, forward, gaeVars, clip>>

\* Worker.train_model, worker.py:33-34; a preprocess_data result of this
\* worker is no longer one of its current critic
TrainModel(w, b) ==
    /\ status[w] = "ready"
    /\ StepsTaken + Cardinality(Evaluated) < MaxWork
    /\ model' = [model EXCEPT ![w] = TrainModelOn(@, b)]
    /\ pre' = IF pre.w = w THEN NoPre ELSE pre
    /\ returned' = NoReturn
    /\ UNCHANGED <<status, wattr, fs, built, saved, forward, gaeVars, clip>>

\* Worker.save_model, worker.py:36-37
SaveModel(w, p) ==
    /\ status[w] = "ready"
    /\ fs' = [fs EXCEPT ![p] = SaveBlob(config, model[w])]
    /\ saved' = [saved EXCEPT ![p] =
                   [w |-> w, actor |-> model[w].actor, critic |-> model[w].critic]]
    /\ returned' = NoReturn
    /\ UNCHANGED <<pre, status, model, wattr, built, forward, gaeVars, clip>>

Next ==
    \/ \E w \in Workers, p \in Paths : ConstructLoadActor(w, p)
    \/ \E w \in Workers : ConstructLoadCritic(w)
    \/ \E w \in Workers : Ready(w)
    \/ \E w \in Workers, b \in BatchIds : PreprocessCall(w, b)
    \/ \E w \in Workers : PrepareModel(w)
    \/ \E w \in Workers, b \in TrainBatchIds : TrainModel(w, b)
    \/ \E w \in Workers, p \in Paths : SaveModel(w, p)

Spec == Init /\ [][Next]_vars

-----------------------------------------------------------------------------
(* SpecCkpt: save_model and load_model on a container whose networks the   *)
(* execution layer may have rebound to wrappers.  get_model, lines 25-26,  *)
(* hands the networks out for that, and save_model, lines 29-30, looks     *)
(* behind a wrapper; Worker.prepare_model itself leaves the container's    *)
(* networks as they are.                                                   *)

\* each network of a container as built, or rebound to a wrapper around it
Bindings == [Nets -> {"raw", "ddp"}]

\* the worker whose container is given, and that container: built on no
\* file, with the networks bound as bind says
Saver == "w1"
GivenModel(cfg, bind) ==
    LET l == LoadModel(cfg, FreshParams(Saver, "actor"), FreshParams(Saver, "critic"),
                       NoFile, NoFile)
    IN  [NewModel(l) EXCEPT !.bind = bind]

InitCkpt ==
    /\ config \in WorkerConfigs
    /\ \E bind \in Bindings :
         model = [w \in Workers |->
                    IF w = Saver THEN GivenModel(config, bind) ELSE NoModel]
    /\ status = [w \in Workers |-> IF w = Saver THEN "ready" ELSE "none"]
    /\ built = [w \in Workers |->
                  IF w = Saver
                  THEN Built(Saver, "p", 1, NoFile, NoFile, NoSave, NoSave,
                             LoadModel(config, FreshParams(Saver, "actor"),
                                       FreshParams(Saver, "critic"), NoFile, NoFile))
                  ELSE NoBuilt]
    /\ wattr = [w \in Workers |-> [actor |-> "unset", critic |-> "unset"]]
    /\ fs = [p \in Paths |-> NoFile]
    /\ pre = NoPre
    /\ returned = NoReturn
    /\ saved = [p \in Paths |-> NoSave]
    /\ forward = {}
    /\ IdleGAE
    /\ clip = IdleClip

NextCkpt ==
    \/ \E w \in Workers, b \in TrainBatchIds : TrainModel(w, b)
    \/ \E w \in Workers, p \in Paths : SaveModel(w, p)
    \/ \E w \in Workers, p \in Paths : ConstructLoadActor(w, p)
    \/ \E w \in Workers : ConstructLoadCritic(w)

SpecCkpt == InitCkpt /\ [][NextCkpt]_vars

-----------------------------------------------------------------------------
(* SpecGAE: one call of preprocess_data on one trajectory *)

MaxLen == 3

\* GAMMA and LAMBDA of the configuration record: 0, 1/2, 1
Rates == {0, Unit \div 2, Unit}
\* rewards and value estimates: 0.0 or 1.0
Amounts == {0, Unit}

InitGAE ==
    /\ config \in [GAMMA : Rates, LAMBDA_ : Rates]
    /\ \E T \in 1..MaxLen :
         /\ rewards \in [1..T -> Amounts]
         /\ dones \in [1..T -> {0, 1}]
         /\ values \in [1..T -> Amounts]
         \* a rollout: the next state of step t is the state of step t+1;
         \* the last next state is the bootstrap state
         /\ \E boot \in Amounts :
              next_values = [t \in 1..T |-> IF t < T THEN values[t + 1] ELSE boot]
    /\ advantages = <<>>
    /\ result = NoResult
    /\ clip = IdleClip
    /\ IdleWorker

Preprocess ==
    /\ result.none
    /\ advantages' = RawAdvantages(config, rewards, next_values, dones, values)
    /\ result' = PreprocessData(config, rewards, next_values, dones, values)
    /\ UNCHANGED <<config, rewards, dones, values, next_values, clip, workerVars>>

NextGAE == Preprocess

SpecGAE == InitGAE /\ [][NextGAE]_vars

-----------------------------------------------------------------------------
(* ModelWrapper.train_model, model.py:99-102: the clipped surrogate loss *)

\* line 99: ratio = exp(new_log_prob - old_log_prob), the log-probabilities
\* given by the probabilities they are the logarithms of: exp(ln p - ln q) = p/q
Ratio(new_prob, old_prob) == RoundDiv(new_prob * Unit, old_prob)

\* torch.clamp(x, lo, hi)
Clamp(x, lo, hi) == IF x < lo THEN lo ELSE IF x > hi THEN hi ELSE x

\* the larger of the two, where the code takes the smaller
TorchMax(a, b) == IF a >= b THEN a ELSE b

\* torch.min(a, b), elementwise
TorchMin(a, b) == IF a <= b THEN a ELSE b

\* line 100: policy_gradient = ratio * batch_advantage
PolicyGradient(ratio, adv) == [i \in 1..Len(ratio) |-> Mul(ratio[i], adv[i])]

\* line 101: clipped = clamp(ratio, 1 - EPS_CLIP, 1 + EPS_CLIP) * batch_advantage
Clipped(cfg, ratio, adv) ==
    [i \in 1..Len(ratio) |->
        Mul(Clamp(ratio[i], Unit - cfg.EPS_CLIP, Unit + cfg.EPS_CLIP), adv[i])]

\* line 102, inside the mean: torch.min(policy_gradient, clipped)
Objective(cfg, ratio, adv) ==
    [i \in 1..Len(ratio) |->
        TorchMin(PolicyGradient(ratio, adv)[i], Clipped(cfg, ratio, adv)[i])]

\* line 102: actor_loss = -torch.min(policy_gradient, clipped).mean()
ActorLoss(cfg, ratio, adv) ==
    -RoundDiv(Sum(Objective(cfg, ratio, adv)), Len(ratio))

-----------------------------------------------------------------------------
(* SpecClip: the loss computation of one train_model call on one batch *)

MaxBatch == 2

\* probabilities the behaviour and the current policy give the taken action
Probs == {Unit \div 2, 3 * (Unit \div 4), Unit}
\* EPS_CLIP of the configuration record: 1/4, 1/2
ClipRanges == {Unit \div 4, Unit \div 2}
\* normalized advantages handed to train_model
Advantages == {-Unit, 0, Unit}

InitClip ==
    /\ config \in [EPS_CLIP : ClipRanges]
    /\ \E N \in 1..MaxBatch :
         \E new \in [1..N -> Probs], old \in [1..N -> Probs],
            adv \in [1..N -> Advantages] :
            clip = [phase |-> "input", batch_new_prob |-> new, batch_log_prob |-> old,
                    batch_advantage |-> adv]
    /\ IdleGAE
    /\ IdleWorker

ComputeLoss ==
    /\ clip.phase = "input"
    /\ LET ratio == [i \in 1..Len(clip.batch_new_prob) |->
                        Ratio(clip.batch_new_prob[i], clip.batch_log_prob[i])]
       IN  clip' = [phase |-> "done",
                    batch_new_prob |-> clip.batch_new_prob,
                    batch_log_prob |-> clip.batch_log_prob,
                    batch_advantage |-> clip.batch_advantage,
                    ratio |-> ratio,
                    objective |-> Objective(config, ratio, clip.batch_advantage),
                    actor_loss |-> ActorLoss(config, ratio, clip.batch_advantage)]
    /\ UNCHANGED <<gaeVars, workerVars>>

NextClip == ComputeLoss

SpecClip == InitClip /\ [][NextClip]_vars

-----------------------------------------------------------------------------
(* Properties of preprocess_data, checked under SpecGAE *)

\* what the quotients say about the numbers they stand for
Defined(x) == x.root > 0 \/ x.eps > 0          \* the divisor is not 0
IsZero(x) == Defined(x) /\ x.num = 0
\* the mean of a sequence of quotients with one divisor is 0
MeanIsZero(q) ==
    /\ \A t \in 1..Len(q) : Defined(q[t]) /\ q[t].root = q[1].root /\ q[t].eps = q[1].eps
    /\ Sum([t \in 1..Len(q) |-> q[t].num]) = 0
\* the standard deviation of a sequence of quotients with mean 0 is
\* s / (s + 1e-8) for an s > 0: the divisor is the deviation of the numerators
StdIsOne(q) ==
    /\ MeanIsZero(q)
    /\ q[1].eps = 1
    /\ q[1].root > 0
    /\ Sum([t \in 1..Len(q) |-> q[t].num * q[t].num]) = Len(q) * q[1].root

GaeDone == ~result.none
AllEqual(a) == \A s, t \in 1..Len(a) : a[s] = a[t]

\* C1: the raw advantages satisfy the backward GAE recurrence: the last one is
\* delta[T], every earlier one is delta[t] + GAMMA*LAMBDA*(1-done[t])*A[t+1],
\* and a done step has A[t] = reward[t] - value[t] whatever follows it.
C1_GaeRecurrence ==
    GaeDone =>
        LET T == Len(rewards)
            GL == Mul(config.GAMMA, config.LAMBDA_)
            delta == [t \in 1..T |->
                        rewards[t] + Mul(config.GAMMA, next_values[t]) * (1 - dones[t])
                        - values[t]]
        IN  /\ Len(advantages) = T
            /\ advantages[T] = delta[T]
            /\ \A t \in 1..(T - 1) :
                 advantages[t] = delta[t] + Mul(GL * (1 - dones[t]), advantages[t + 1])
            /\ \A t \in 1..T :
                 dones[t] = 1 => advantages[t] = rewards[t] - values[t]

\* a finished call on three steps where the done mask cuts a non-zero tail
\* at step 1 and a non-zero tail is carried from step 3 into step 2
C1_Witness ==
    /\ GaeDone
    /\ Len(rewards) = 3
    /\ dones[1] = 1 /\ dones[2] = 0
    /\ Mul(config.GAMMA, config.LAMBDA_) > 0
    /\ advantages[3] # 0
    /\ advantages[2] # 0
    /\ advantages[2] # rewards[2] - values[2]

\* C2 as stated: for T > 1 the returned advantage has mean 0 and standard
\* deviation 1 (up to the 1e-8), for every input.
C2_UnitStdAlways ==
    (GaeDone /\ Len(rewards) > 1) =>
        /\ MeanIsZero(result.advantage)
        /\ StdIsOne(result.advantage)

\* C2 amended: for T > 1 the returned advantage has mean 0 and standard
\* deviation s / (s + 1e-8), s the deviation of the raw advantages: 1 up to
\* the 1e-8 when the raw advantages are not all equal, and 0, every returned
\* advantage being 0, when they are.
C2_UnitStdUnlessConstant ==
    (GaeDone /\ Len(rewards) > 1) =>
        /\ MeanIsZero(result.advantage)
        /\ IF AllEqual(advantages)
           THEN \A t \in 1..Len(rewards) : IsZero(result.advantage[t])
           ELSE StdIsOne(result.advantage)

\* a finished call on three steps with three different raw advantages
C2_Witness ==
    /\ GaeDone
    /\ Len(rewards) = 3
    /\ advantages[1] # advantages[2]
    /\ advantages[2] # advantages[3]
    /\ advantages[1] # advantages[3]
    /\ StdIsOne(result.advantage)

\* C3: for T = 1 the call returns advantage exactly 0 and td_target equal to
\* the critic's value estimate.
C3_SingleTransition ==
    (GaeDone /\ Len(rewards) = 1) =>
        /\ Len(result.advantage) = 1 /\ Len(result.td_target) = 1
        /\ IsZero(result.advantage[1])
        /\ result.advantage[1].eps = 0
        /\ IsZero(result.td_target[1].q)
        /\ result.td_target[1].plus = values[1]

\* a finished call on one step whose raw advantage and value are not 0
C3_Witness ==
    /\ GaeDone
    /\ Len(rewards) = 1
    /\ advantages[1] # 0
    /\ values[1] # 0
    /\ IsZero(result.advantage[1])

-----------------------------------------------------------------------------
(* Properties of the clipped surrogate, checked under SpecClip *)

\* C4: per sample the objective is ratio*A inside the clip band, (1+EPS_CLIP)*A
\* when A > 0 and the ratio is above the band, (1-EPS_CLIP)*A when A < 0 and
\* the ratio is below it, and never more than ratio*A; actor_loss is the
\* negated mean of the objective.
C4_ClippedSurrogate ==
    clip.phase = "done" =>
        LET N == Len(clip.ratio)
            lo == Unit - config.EPS_CLIP
            hi == Unit + config.EPS_CLIP
        IN  /\ \A i \in 1..N :
                 LET r == clip.ratio[i]
                     A == clip.batch_advantage[i]
                     obj == clip.objective[i]
                 IN  /\ r > 0
                     /\ (lo <= r /\ r <= hi) => obj = Mul(r, A)
                     /\ (A > 0 /\ r > hi) => obj = Mul(hi, A)
                     /\ (A < 0 /\ r < lo) => obj = Mul(lo, A)
                     /\ obj <= Mul(r, A)
            /\ 2 * Abs(N * clip.actor_loss + Sum(clip.objective)) <= N

\* a finished batch of two: one sample cut at the upper edge of the band and
\* one strictly inside the band with a ratio that is not 1
C4_Witness ==
    /\ clip.phase = "done"
    /\ Len(clip.ratio) = 2
    /\ clip.batch_advantage[1] > 0
    /\ clip.ratio[1] > Unit + config.EPS_CLIP
    /\ clip.objective[1] = Mul(Unit + config.EPS_CLIP, clip.batch_advantage[1])
    /\ clip.objective[1] < Mul(clip.ratio[1], clip.batch_advantage[1])
    /\ clip.batch_advantage[2] < 0
    /\ clip.ratio[2] > Unit - config.EPS_CLIP
    /\ clip.ratio[2] < Unit
    /\ clip.actor_loss # 0

-----------------------------------------------------------------------------
(* Properties of the workers, checked under Spec *)

Both == {"actor", "critic"}
Learnable(c) == <<c.actor, c.critic, c.actor_optimizer, c.critic_optimizer>>
Seeds(params) == [L \in Layers |-> params[L].seed]
Trained(params) == \A L \in Layers : Len(params[L].hist) > 0

\* C5: save_model, on networks that are wrapped or not, writes a blob with
\* exactly the keys actor and critic, each the state_dict of the unwrapped
\* network with every layer's tensors of the saver; and a ModelWrapper
\* constructed on a path save_model wrote comes up ready with, layer by
\* layer, the actor of the save_model call its first read of the file
\* follows and the critic of the call its second read follows: the actor and
\* the critic of one saved container when that is one call.  (What a network
\* gives for a state is a function of these tensors and of nothing else,
\* lines 120-147.)
C5_SaveLoadRoundTrip ==
    [][ /\ \A p \in Paths :
             saved'[p].w # "none" =>
                 /\ fs'[p].exists
                 /\ fs'[p].keys = Both
                 /\ fs'[p].actor.names = "fc"
                 /\ fs'[p].critic.names = "fc"
                 /\ fs'[p].actor.shape = Shape(config, "actor")
                 /\ fs'[p].critic.shape = Shape(config, "critic")
                 /\ \A L \in Layers :
                      /\ fs'[p].actor.params[L] = saved'[p].actor[L]
                      /\ fs'[p].critic.params[L] = saved'[p].critic[L]
        /\ \A w \in Workers, p \in Paths :
             (SaveModel(w, p)) =>
                 /\ saved'[p].actor = model[w].actor
                 /\ saved'[p].critic = model[w].critic
        /\ \A v \in Workers, p \in Paths :
             (ConstructLoadActor(v, p) /\ saved[p].w # "none") =>
                 /\ status'[v] = "loading"
                 /\ \A L \in Layers : built'[v].actor[L] = saved[p].actor[L]
        /\ \A v \in Workers :
             (ConstructLoadCritic(v) /\ built[v].saw.w # "none") =>
                 LET p == built[v].path
                 IN  /\ status'[v] = "ready"
                     /\ \A L \in Layers :
                          /\ model'[v].actor[L] = built[v].saw.actor[L]
                          /\ model'[v].critic[L] = saved[p].critic[L]
                     /\ saved[p] = built[v].saw =>
                            \A L \in Layers :
                                /\ model'[v].actor[L] = saved[p].actor[L]
                                /\ model'[v].critic[L] = saved[p].critic[L]
      ]_vars

\* w2 was built, in two reads of one file, on what w1 saved after training
\* with both of its networks wrapped, and holds w1's tensors
C5_Witness ==
    /\ status["w1"] = "ready" /\ status["w2"] = "ready"
    /\ model["w1"].bind = [k \in Nets |-> "ddp"]
    /\ saved["p"].w = "w1"
    /\ built["w2"].reads = 2
    /\ built["w2"].saw = saved["p"]
    /\ built["w2"].saw2 = saved["p"]
    /\ built["w2"].blob = fs["p"]
    /\ fs["p"].actor.names = "fc"
    /\ Trained(model["w1"].actor)
    /\ model["w2"].actor = model["w1"].actor
    /\ model["w2"].critic = model["w1"].critic
    /\ Seeds(model["w2"].actor) # Seeds(FreshParams("w2", "actor"))

\* C6: a worker built on a missing file is built: load_model raised nothing,
\* reported the missing file and left both networks as initialized; the
\* worker can be asked ready(), which returns true and nothing else, and it
\* can be trained.
C6_MissingCheckpoint ==
    \A w \in Workers :
        (built[w].done /\ ~built[w].blob.exists) =>
            /\ status[w] = "ready"
            /\ built[w].raised = "none"
            /\ built[w].printed = "not found"
            /\ built[w].after.actor = FreshParams(w, "actor")
            /\ built[w].after.critic = FreshParams(w, "critic")
            /\ Seeds(model[w].actor) = Seeds(FreshParams(w, "actor"))
            /\ Seeds(model[w].critic) = Seeds(FreshParams(w, "critic"))
            /\ ENABLED (Ready(w) /\ returned' = "True")
            /\ ~ENABLED (Ready(w) /\ returned' # "True")
            /\ StepsTaken + Cardinality(Evaluated) < MaxWork
                   => ENABLED TrainModel(w, "b1")

\* a worker built on a missing file has trained and has then answered ready()
C6_Witness ==
    /\ built["w1"].done /\ ~built["w1"].blob.exists
    /\ returned = "True"
    /\ status["w2"] = "none"
    /\ model["w1"].actor_optimizer.step > 0
    /\ Seeds(model["w1"].actor) = Seeds(FreshParams("w1", "actor"))

\* C7 as stated: once prepare_model has run, the networks train_model runs and
\* save_model starts from are the wrapped ones the adapter returned.
C7_TrainsWrappedNetworks ==
    [][ \A w \in Workers :
          (wattr[w].actor # "unset") =>
              /\ \A b \in BatchIds :
                   TrainModel(w, b) =>
                       model'[w].events[1].on = [k \in Nets |-> wattr[w][k]]
              /\ \A p \in Paths :
                   SaveModel(w, p) => model[w].bind = [k \in Nets |-> wattr[w][k]]
      ]_vars

\* C8: once a worker is built, its parameters and optimizer states change only
\* in train_model; a preprocess_data call leaves the worker's container as it
\* was, and it returns what the latest preprocess_data call returned when that
\* was a call of the same worker on the same batch and the worker has not
\* trained since, whatever else was called in between.
C8_OnlyTrainChangesParameters ==
    [][ /\ \A w \in Workers :
             (status[w] = "ready" /\ Learnable(model'[w]) # Learnable(model[w])) =>
                 \E b \in BatchIds : TrainModel(w, b)
        /\ \A w \in Workers, b \in BatchIds :
             (pre'.w = w /\ pre'.batch = b /\ PreprocessCall(w, b)) =>
                 /\ model'[w] = model[w]
                 /\ (pre.w = w /\ pre.batch = b) => pre'.out = pre.out
      ]_vars

\* a worker that has trained holds the result of a preprocess_data call made
\* after the training, on a critic that has moved
C8_Witness ==
    /\ pre.w = "w1"
    /\ \E e \in forward : e.critic = model["w1"].critic /\ e.fn[0] # e.fn[1]
    /\ pre.batch = "b1"
    /\ ~pre.out.none
    /\ \A L \in Layers : Len(model["w1"].critic[L].hist) = 1
    /\ wattr["w1"].actor = "ddp"
    /\ saved["p"].w = "w1"

\* C9: a train_model call is forward, then zero_grad / backward / step on the
\* actor, then zero_grad / backward / step on the critic; each step consumes
\* exactly this call's gradient of its own loss and changes its own network
\* and optimizer only.
C9_OneStepEach ==
    [][ \A w \in Workers, b \in BatchIds :
          TrainModel(w, b) =>
              LET c == model[w]
                  d == model'[w]
                  at == [actor |-> [L \in Layers |-> Len(c.actor[L].hist)],
                         critic |-> [L \in Layers |-> Len(c.critic[L].hist)]]
                  ga == {[loss |-> "actor_loss", batch |-> b, at |-> at]}
                  gc == {[loss |-> "critic_loss", batch |-> b, at |-> at]}
              IN  /\ Len(d.events) = 7
                  /\ d.events[2] = [op |-> "zero_grad", on |-> "actor", grad |-> {}]
                  /\ d.events[3] = [op |-> "backward", on |-> "actor_loss", grad |-> ga]
                  /\ d.events[4] = [op |-> "step", on |-> "actor", grad |-> ga]
                  /\ d.events[5] = [op |-> "zero_grad", on |-> "critic", grad |-> {}]
                  /\ d.events[6] = [op |-> "backward", on |-> "critic_loss", grad |-> gc]
                  /\ d.events[7] = [op |-> "step", on |-> "critic", grad |-> gc]
                  /\ \A L \in Layers :
                       /\ d.actor[L] =
                              [c.actor[L] EXCEPT !.hist =
                                  Append(@, [grad |-> ga,
                                             moments |-> c.actor_optimizer.seen])]
                       /\ d.critic[L] =
                              [c.critic[L] EXCEPT !.hist =
                                  Append(@, [grad |-> gc,
                                             moments |-> c.critic_optimizer.seen])]
                  /\ d.actor_optimizer.step = c.actor_optimizer.step + 1
                  /\ d.critic_optimizer.step = c.critic_optimizer.step + 1
                  /\ d.actor_optimizer.seen = Append(c.actor_optimizer.seen, ga)
                  /\ d.critic_optimizer.seen = Append(c.critic_optimizer.seen, gc)
      ]_vars

\* a worker after its second train_model call
C9_Witness ==
    /\ status["w1"] = "ready"
    /\ model["w1"].actor_optimizer.step = 2
    /\ model["w1"].critic_optimizer.step = 2
    /\ Len(model["w1"].events) = 7
    /\ \A L \in Layers : Len(model["w1"].actor[L].hist) = 2

\* C10 as stated: after load_model both networks hold the parameters of the
\* checkpoint or both hold what they held before the call.
C10_LoadAllOrNothing ==
    \A w \in Workers :
        built[w].done =>
            \/ built[w].after = built[w].before
            \/ /\ built[w].blob.exists
               /\ built[w].blob2 = built[w].blob
               /\ built[w].blob.keys = Both
               /\ built[w].after.actor = built[w].blob.actor.params
               /\ built[w].after.critic = built[w].blob.critic.params

=============================================================================
